---- MODULE Spec2Model ----
(***************************************************************************)
(* Navigation state machine of the multi-layer visualization (src/App.js). *)
(*                                                                         *)
(* Conventions                                                             *)
(*  - Numbers the code keeps as floats are fixed point here:               *)
(*      zoomProgress          in 1/100          (84 is 8400)               *)
(*      pixel coordinates     in 1/10 px                                   *)
(*      scale factors         in 1/10000        (1.0 is 10000)             *)
(*  - Every handler runs against a closure: the values of the component    *)
(*    state at the render that created the handler.  Input events use the  *)
(*    closure of the latest render; timer, interval and animation-frame    *)
(*    callbacks keep the closure of the render that scheduled them.        *)
(*  - A state is what React has committed after one task (one event        *)
(*    handler, one timer callback, or one animation frame).                *)
(*  - The production build is modelled: a state updater runs once.         *)
(*  - scale, panX, panY, textOpacity, nextLayerOpacity, clickedNodes and   *)
(*    the drag state are never assigned a value other than their initial   *)
(*    one and are left out; direction and silentTransition (with its 50 ms *)
(*    reset) only select the animation the presentation plays, no handler  *)
(*    reads them, and they are left out too.                               *)
(*  - The setTimeout that ends a simulated zoom is tracked while its       *)
(*    interval is live; once the interval has been cleared, the timeout    *)
(*    clears nothing and finds another handle in the ref.                  *)
(***************************************************************************)
EXTENDS Integers, Sequences, FiniteSets, TLC

(***************************************************************************)
(* Bounds of the model                                                     *)
(***************************************************************************)
MaxRaf == 1          \* animation-frame callbacks pending at once
MaxTransitions == 2  \* transitions whose 750 ms timer is pending or that a pending frame may start
MaxFineSteps == 2    \* steps of 5 (interval ticks, right-click decrements) in a run

(***************************************************************************)
(* Static configuration                                                    *)
(***************************************************************************)
NoNode == "none"
NoLayer == "null"

canvasBackgroundColor == "#0a0e27"

Layers ==
  << [id |-> "layer-1", name |-> "Root", color |-> "#2563eb",
      nodes |-> << [id |-> "node-1", x |-> 50, y |-> 50, children |-> "layer-2"] >>],
     [id |-> "layer-2", name |-> "Main Categories", color |-> "#7c3aed",
      nodes |-> << [id |-> "node-2-1", x |-> 43, y |-> 50, children |-> "layer-3"],
                   [id |-> "node-2-2", x |-> 57, y |-> 50, children |-> "layer-3"] >>],
     [id |-> "layer-3", name |-> "Details", color |-> "#34d399",
      nodes |-> << [id |-> "node-3-1", x |-> 60, y |-> 50, children |-> NoLayer],
                   [id |-> "node-3-2", x |-> 50, y |-> 65, children |-> NoLayer],
                   [id |-> "node-3-3", x |-> 40, y |-> 50, children |-> NoLayer],
                   [id |-> "node-3-4", x |-> 50, y |-> 35, children |-> NoLayer] >>] >>

NumLayers == Len(Layers)

\* config.layers[i] for the 0-based index i of the code
LayerAt(i) == Layers[i + 1]

NodesOf(i) == { LayerAt(i).nodes[k] : k \in 1..Len(LayerAt(i).nodes) }

AllNodes == UNION { NodesOf(i) : i \in 0..(NumLayers - 1) }

\* a node as a configuration could hold it, whose children names no layer
DanglingNode == [id |-> "node-x", x |-> 50, y |-> 50, children |-> "layer-x"]

NodeById(nid) == CHOOSE n \in AllNodes \cup { DanglingNode } : n.id = nid

\* findIndex answering the first layer when there is none
findIndexOrRoot(children) ==
  IF \E i \in 0..(NumLayers - 1) : LayerAt(i).id = children
  THEN CHOOSE i \in 0..(NumLayers - 1) : LayerAt(i).id = children
  ELSE 0

\* config.layers.findIndex(l => l.id === children); -1 when there is none
findIndex(children) ==
  IF \E i \in 0..(NumLayers - 1) : LayerAt(i).id = children
  THEN CHOOSE i \in 0..(NumLayers - 1) : LayerAt(i).id = children
  ELSE -1

hasChildren(node) == node.children # NoLayer

(***************************************************************************)
(* Viewports the window can take (width, height in px)                     *)
(***************************************************************************)
Viewports == { [width |-> 1920, height |-> 1320], [width |-> 1920, height |-> 528] }

InitialViewport == [width |-> 1920, height |-> 1320]

(***************************************************************************)
(* Arithmetic helpers                                                      *)
(***************************************************************************)
Min(a, b) == IF a < b THEN a ELSE b
Max(a, b) == IF a > b THEN a ELSE b

RECURSIVE SqrtSearch(_, _, _)
\* largest r in lo..hi with r * r <= n
SqrtSearch(n, lo, hi) ==
  IF lo >= hi THEN lo
  ELSE LET mid == (lo + hi + 1) \div 2
       IN IF mid * mid <= n THEN SqrtSearch(n, mid, hi) ELSE SqrtSearch(n, lo, mid - 1)

\* floor(Math.sqrt(n))
Sqrt(n) == SqrtSearch(n, 0, 46340)

(***************************************************************************)
(* calculateResponsiveScale                                                *)
(***************************************************************************)
baseSize == 165
ScaleOne == 10000
ScaleMin == 3000

\* (node.x / 100) * width, in 1/10 px
PxX(node, viewport) == (node.x * viewport.width) \div 10
PxY(node, viewport) == (node.y * viewport.height) \div 10

\* baseSize * 1.2, in 1/10 px
minDistance == 1980

\* STEP 1 for one pair with baseSize in the place of minDistance: no 20% margin
PairScaleNoMargin(n1, n2, viewport, minScale) ==
  LET dx == PxX(n2, viewport) - PxX(n1, viewport)
      dy == PxY(n2, viewport) - PxY(n1, viewport)
      distance == Sqrt(dx * dx + dy * dy)
  IN IF distance < baseSize * 10 /\ distance > 0
     THEN Min(minScale, (distance * ScaleOne) \div (baseSize * 10))
     ELSE minScale

\* STEP 1 for one pair: the scale the pair requires, or the scale so far
PairScale(n1, n2, viewport, minScale) ==
  LET dx == PxX(n2, viewport) - PxX(n1, viewport)
      dy == PxY(n2, viewport) - PxY(n1, viewport)
      distance == Sqrt(dx * dx + dy * dy)
  IN IF distance < minDistance /\ distance > 0
     THEN Min(minScale, (distance * ScaleOne) \div minDistance)
     ELSE minScale

RECURSIVE PairLoop(_, _, _, _, _)
\* the nested loops over i < j, in the code's order
PairLoop(nodes, i, j, viewport, minScale) ==
  IF i > Len(nodes) THEN minScale
  ELSE IF j > Len(nodes) THEN PairLoop(nodes, i + 1, i + 2, viewport, minScale)
  ELSE PairLoop(nodes, i, j + 1, viewport, PairScale(nodes[i], nodes[j], viewport, minScale))

\* STEP 2 for one node leaving the scale as it is
NodeBoundScaleNoReduce(node, viewport, minScale) == minScale

\* STEP 2 for one node: left, right, top, bottom.  pos is the distance to an edge
\* in 1/10 px; the node is clipped when pos < radius = baseSize * minScale / 2,
\* the radius being computed once per node from the scale at the start of the
\* node; the reduction (pos / (baseSize / 2)) * minScale * 0.95 uses the scale
\* reduced so far
NodeBoundScale(node, viewport, minScale) ==
  LET x == PxX(node, viewport)
      y == PxY(node, viewport)
      w == viewport.width * 10
      h == viewport.height * 10
      clipped(pos) == pos * 2000 < baseSize * minScale
      reduce(pos, s) == IF clipped(pos) THEN Min(s, (pos * s * 95) \div (825 * 100)) ELSE s
  IN reduce(h - y, reduce(y, reduce(w - x, reduce(x, minScale))))

RECURSIVE BoundLoop(_, _, _, _)
BoundLoop(nodes, k, viewport, minScale) ==
  IF k > Len(nodes) THEN minScale
  ELSE BoundLoop(nodes, k + 1, viewport, NodeBoundScale(nodes[k], viewport, minScale))

\* the function without STEP 3, the clamp to [0.3, 1]
calculateResponsiveScaleNoClamp(viewport, allNodes) ==
  IF Len(allNodes) <= 1 THEN ScaleOne
  ELSE BoundLoop(allNodes, 1, viewport, PairLoop(allNodes, 1, 2, viewport, ScaleOne))

calculateResponsiveScale(viewport, allNodes) ==
  IF Len(allNodes) <= 1 THEN ScaleOne
  ELSE LET afterPairs == PairLoop(allNodes, 1, 2, viewport, ScaleOne)
           afterBounds == BoundLoop(allNodes, 1, viewport, afterPairs)
       IN Max(ScaleMin, Min(ScaleOne, afterBounds))

\* a value that may be null or undefined: << >> when it is, << v >> otherwise
Null == << >>
Some(v) == << v >>

\* the whole function, early return included:
\* if (!viewport || !allNodes || allNodes.length <= 1) return 1
calculateResponsiveScaleOf(args) ==
  IF args.viewport = Null \/ args.allNodes = Null
  THEN ScaleOne
  ELSE calculateResponsiveScale(args.viewport[1], args.allNodes[1])

(***************************************************************************)
(* maxProgress of handleZoomProgress, in 1/100                             *)
(***************************************************************************)
\* Math.min(width, height) * 0.95 * 1.75, in 1/10000 px
maxNodeSize(viewport) == Min(viewport.width, viewport.height) * 16625

\* (maxNodeSize / (baseNodeSize * responsiveScale) - 1) / (8 / 100)
maxProgress(viewport, layerIndex) ==
  LET initialNodeSize == baseSize * calculateResponsiveScale(viewport, LayerAt(layerIndex).nodes)
      excess == maxNodeSize(viewport) - initialNodeSize
  IN IF excess >= 0
     THEN (excess \div initialNodeSize) * 1250 + ((excess % initialNodeSize) * 1250) \div initialNodeSize
     ELSE -(((-excess) * 1250) \div initialNodeSize)

(***************************************************************************)
(* Component state                                                         *)
(***************************************************************************)
VARIABLES
  currentLayerIndex,     \* useState(0)
  zoomProgress,          \* useState(0), in 1/100
  zoomingNode,           \* useState(null): a node id or NoNode
  history,               \* useState([root entry])
  backgroundColor,       \* useState(config.canvas.backgroundColor)
  isZooming,             \* useState(false): the transition lock
  viewport,              \* useState({ width, height })
  clickZoomIntervalRef,  \* useRef(null): an interval id, 0 for null
  intervals,             \* live setInterval callbacks of the simulated zoom
  rafQueue,              \* pending requestAnimationFrame callbacks, in order
  timers50,              \* pending setTimeout(..., 50) callbacks, in order
  unlocks,               \* number of pending setTimeout(setIsZooming(false), 750)
  listenerHistory,       \* history closed over by the triggerReverseTransition listener
  fineSteps,             \* number of steps of 5 taken so far
  lastOp,                \* the handler or callback that ran last
  homeRun,               \* how far the last home went: "idle", "invoked", "done"
  scaleArgs,             \* arguments of a call of calculateResponsiveScale
  responsiveScale        \* what the call returned, NotCalled before it

vars == << currentLayerIndex, zoomProgress, zoomingNode, history, backgroundColor,
           isZooming, viewport, clickZoomIntervalRef,
           intervals, rafQueue, timers50, unlocks,
           listenerHistory, fineSteps, lastOp, homeRun, scaleArgs, responsiveScale >>

\* the state a handler works on
St ==
  [ currentLayerIndex |-> currentLayerIndex, zoomProgress |-> zoomProgress,
    zoomingNode |-> zoomingNode, history |-> history,
    backgroundColor |-> backgroundColor, isZooming |-> isZooming,
    clickZoomIntervalRef |-> clickZoomIntervalRef, intervals |-> intervals,
    rafQueue |-> rafQueue,
    timers50 |-> timers50, unlocks |-> unlocks ]

\* the closure of the latest render
Closure ==
  [ isZooming |-> isZooming, zoomProgress |-> zoomProgress,
    currentLayerIndex |-> currentLayerIndex, viewport |-> viewport,
    history |-> history ]

NotCalled == -1
NoScaleArgs == [ viewport |-> Null, allNodes |-> Null ]

\* the root entry carrying the colour of the root layer
rootEntryLayerColor ==
  [ layerIndex |-> 0, color |-> LayerAt(0).color, name |-> LayerAt(0).name,
    nodeColor |-> LayerAt(0).color, clickedNode |-> NoNode ]

rootEntry ==
  [ layerIndex |-> 0, color |-> canvasBackgroundColor, name |-> LayerAt(0).name,
    nodeColor |-> canvasBackgroundColor, clickedNode |-> NoNode ]

\* the component after its first render
Mounted ==
  /\ currentLayerIndex = 0
  /\ zoomProgress = 0
  /\ zoomingNode = NoNode
  /\ history = << rootEntry >>
  /\ backgroundColor = canvasBackgroundColor
  /\ isZooming = FALSE
  /\ viewport = InitialViewport
  /\ clickZoomIntervalRef = 0
  /\ intervals = {}
  /\ rafQueue = << >>
  /\ timers50 = << >>
  /\ unlocks = 0
  /\ listenerHistory = << rootEntry >>
  /\ fineSteps = 0
  /\ lastOp = "mount"
  /\ homeRun = "idle"

Init ==
  /\ Mounted
  /\ scaleArgs = NoScaleArgs
  /\ responsiveScale = NotCalled

(***************************************************************************)
(* Handlers, as functions from the state to the state                      *)
(***************************************************************************)
zoomSensitivity100 == 15     \* 0.15, in 1/100
RootMaxProgress == 20000     \* 200
RootThreshold == 8400        \* 84
DeepThreshold == 9000        \* 90

transitionThreshold(layerIndex) == IF layerIndex = 0 THEN RootThreshold ELSE DeepThreshold

childrenOf(node) == IF node = NoNode THEN NoLayer ELSE NodeById(node).children

\* prev.slice(0, n) for n >= 0
Slice(seq, n) == SubSeq(seq, 1, Min(n, Len(seq)))

\* prev.slice(0, -1)
DropLast(seq) == IF Len(seq) = 0 THEN << >> ELSE SubSeq(seq, 1, Len(seq) - 1)

\* clearInterval(clickZoomIntervalRef.current); clickZoomIntervalRef.current = null
clearClickZoomInterval(s) ==
  IF s.clickZoomIntervalRef # 0
  THEN [s EXCEPT !.intervals = { i \in @ : i.id # s.clickZoomIntervalRef },
                 !.clickZoomIntervalRef = 0]
  ELSE s

handleReverseLayerTransition(s, c) ==
  IF c.currentLayerIndex = 0 \/ Len(c.history) <= 1 THEN s
  ELSE LET prevHistory == c.history[Len(c.history) - 1]
       IN [s EXCEPT !.isZooming = TRUE,
                    !.backgroundColor = prevHistory.color,
                    !.timers50 = Append(@, [kind |-> "reverseSwap",
                                            layerIndex |-> prevHistory.layerIndex,
                                            index |-> 0]),
                    !.unlocks = @ + 1]

\* handleSilentLayerTransition without setZoomProgress(0) and setZoomingNode(null)
handleSilentLayerTransitionKeepsZoom(s, c, node) ==
  IF ~hasChildren(NodeById(node)) THEN s
  ELSE LET targetLayerIndex == findIndex(NodeById(node).children)
           nodeColor == LayerAt(c.currentLayerIndex).color
           entry == [ layerIndex |-> targetLayerIndex, color |-> nodeColor,
                      name |-> LayerAt(targetLayerIndex).name,
                      nodeColor |-> nodeColor, clickedNode |-> node ]
           s1 == clearClickZoomInterval(s)
       IN IF targetLayerIndex = -1 THEN s
          ELSE [s1 EXCEPT !.currentLayerIndex = targetLayerIndex,
                          !.backgroundColor = nodeColor,
                          !.history = IF Len(@) > 0 /\ @[Len(@)].layerIndex = targetLayerIndex
                                      THEN @ ELSE Append(@, entry)]

\* handleSilentLayerTransition without its setHistory
handleSilentLayerTransitionNoHistory(s, c, node) ==
  IF ~hasChildren(NodeById(node)) THEN s
  ELSE LET targetLayerIndex == findIndex(NodeById(node).children)
           nodeColor == LayerAt(c.currentLayerIndex).color
           s1 == clearClickZoomInterval(s)
       IN IF targetLayerIndex = -1 THEN s
          ELSE [s1 EXCEPT !.zoomProgress = 0,
                          !.zoomingNode = NoNode,
                          !.currentLayerIndex = targetLayerIndex,
                          !.backgroundColor = nodeColor]

\* handleSilentLayerTransition taking the color of the layer it enters
handleSilentLayerTransitionTargetColor(s, c, node) ==
  IF ~hasChildren(NodeById(node)) THEN s
  ELSE LET targetLayerIndex == findIndex(NodeById(node).children)
           nodeColor == LayerAt(targetLayerIndex).color
           entry == [ layerIndex |-> targetLayerIndex, color |-> nodeColor,
                      name |-> LayerAt(targetLayerIndex).name,
                      nodeColor |-> nodeColor, clickedNode |-> node ]
           s1 == clearClickZoomInterval(s)
       IN IF targetLayerIndex = -1 THEN s
          ELSE [s1 EXCEPT !.zoomProgress = 0,
                          !.zoomingNode = NoNode,
                          !.currentLayerIndex = targetLayerIndex,
                          !.backgroundColor = nodeColor,
                          !.history = IF Len(@) > 0 /\ @[Len(@)].layerIndex = targetLayerIndex
                                      THEN @ ELSE Append(@, entry)]

\* handleSilentLayerTransition without setZoomingNode(null)
handleSilentLayerTransitionKeepsZoomingNode(s, c, node) ==
  IF ~hasChildren(NodeById(node)) THEN s
  ELSE LET targetLayerIndex == findIndex(NodeById(node).children)
           nodeColor == LayerAt(c.currentLayerIndex).color
           entry == [ layerIndex |-> targetLayerIndex, color |-> nodeColor,
                      name |-> LayerAt(targetLayerIndex).name,
                      nodeColor |-> nodeColor, clickedNode |-> node ]
           s1 == clearClickZoomInterval(s)
       IN IF targetLayerIndex = -1 THEN s
          ELSE [s1 EXCEPT !.zoomProgress = 0,
                          !.currentLayerIndex = targetLayerIndex,
                          !.backgroundColor = nodeColor,
                          !.history = IF Len(@) > 0 /\ @[Len(@)].layerIndex = targetLayerIndex
                                      THEN @ ELSE Append(@, entry)]

\* handleSilentLayerTransition appending its entry whatever the top of history is
handleSilentLayerTransitionAlwaysAppends(s, c, node) ==
  IF ~hasChildren(NodeById(node)) THEN s
  ELSE LET targetLayerIndex == findIndex(NodeById(node).children)
           nodeColor == LayerAt(c.currentLayerIndex).color
           entry == [ layerIndex |-> targetLayerIndex, color |-> nodeColor,
                      name |-> LayerAt(targetLayerIndex).name,
                      nodeColor |-> nodeColor, clickedNode |-> node ]
           s1 == clearClickZoomInterval(s)
       IN IF targetLayerIndex = -1 THEN s
          ELSE [s1 EXCEPT !.zoomProgress = 0,
                          !.zoomingNode = NoNode,
                          !.currentLayerIndex = targetLayerIndex,
                          !.backgroundColor = nodeColor,
                          !.history = Append(@, entry)]

handleSilentLayerTransition(s, c, node) ==
  IF ~hasChildren(NodeById(node)) THEN s
  ELSE LET targetLayerIndex == findIndex(NodeById(node).children)
           \* node.color is undefined for every configured node
           nodeColor == LayerAt(c.currentLayerIndex).color
           entry == [ layerIndex |-> targetLayerIndex, color |-> nodeColor,
                      name |-> LayerAt(targetLayerIndex).name,
                      nodeColor |-> nodeColor, clickedNode |-> node ]
           s1 == clearClickZoomInterval(s)
       IN IF targetLayerIndex = -1 THEN s
          ELSE [s1 EXCEPT !.zoomProgress = 0,
                          !.zoomingNode = NoNode,
                          !.currentLayerIndex = targetLayerIndex,
                          !.backgroundColor = nodeColor,
                          !.history = IF Len(@) > 0 /\ @[Len(@)].layerIndex = targetLayerIndex
                                      THEN @ ELSE Append(@, entry)]

\* what a requestAnimationFrame callback reads of its closure: currentLayer
\* (handleSilentLayerTransition) or currentLayerIndex and history
\* (handleReverseLayerTransition)
rafClosure(c, h) == [ currentLayerIndex |-> c.currentLayerIndex, history |-> h ]

\* the updater passed to setZoomProgress: prev is the state's value, everything
\* else comes from the closure
\* the updater without the reverse request of a step that reaches 0
zoomProgressUpdaterNoReverse(s, c, node, deltaY) ==
  LET prev == s.zoomProgress
      raised == Max(0, prev + deltaY * zoomSensitivity100)
      newProgress == IF c.currentLayerIndex > 0
                     THEN Min(maxProgress(c.viewport, c.currentLayerIndex), raised)
                     ELSE Min(RootMaxProgress, raised)
      threshold == transitionThreshold(c.currentLayerIndex)
      s1 == IF newProgress >= threshold /\ prev < threshold /\ childrenOf(node) # NoLayer
            THEN [s EXCEPT !.rafQueue = Append(@, [kind |-> "silent", node |-> node,
                                                   closure |-> rafClosure(c, << >>)])]
            ELSE s
  IN [s1 EXCEPT !.zoomProgress = newProgress]

zoomProgressUpdater(s, c, node, deltaY) ==
  LET prev == s.zoomProgress
      increment == deltaY * zoomSensitivity100
      raised == Max(0, prev + increment)
      newProgress == IF c.currentLayerIndex > 0
                     THEN Min(maxProgress(c.viewport, c.currentLayerIndex), raised)
                     ELSE Min(RootMaxProgress, raised)
      threshold == transitionThreshold(c.currentLayerIndex)
      s1 == IF newProgress >= threshold /\ prev < threshold /\ childrenOf(node) # NoLayer
            THEN [s EXCEPT !.rafQueue = Append(@, [kind |-> "silent", node |-> node,
                                                   closure |-> rafClosure(c, << >>)])]
            ELSE s
      s2 == IF newProgress = 0 /\ prev > 0 /\ c.currentLayerIndex > 0
            THEN [s1 EXCEPT !.zoomingNode = NoNode,
                            !.rafQueue = Append(@, [kind |-> "reverse", node |-> NoNode,
                                                    closure |-> rafClosure(c, c.history)])]
            ELSE s1
  IN [s2 EXCEPT !.zoomProgress = newProgress]

\* handleZoomProgress without the guard on nodes that have no children
handleZoomProgressNoTerminalGuard(s, c, node, deltaY) ==
  IF c.isZooming THEN s
  ELSE IF deltaY < 0 /\ c.zoomProgress = 0 /\ c.currentLayerIndex > 0
       THEN handleReverseLayerTransition(s, c)
  ELSE LET s1 == IF deltaY > 0 /\ c.zoomProgress = 0
                 THEN [s EXCEPT !.zoomingNode = node] ELSE s
       IN [s1 EXCEPT !.zoomProgress = Max(0, @ + deltaY * zoomSensitivity100)]

handleZoomProgress(s, c, node, deltaY) ==
  IF c.isZooming THEN s
  ELSE IF deltaY > 0 /\ childrenOf(node) = NoLayer THEN s
  ELSE IF deltaY < 0 /\ c.zoomProgress = 0 /\ c.currentLayerIndex > 0
       THEN handleReverseLayerTransition(s, c)
  ELSE LET s1 == IF deltaY > 0 /\ c.zoomProgress = 0
                 THEN [s EXCEPT !.zoomingNode = node] ELSE s
       IN zoomProgressUpdater(s1, c, node, deltaY)

\* handleCanvasClick going back to the root as well
handleCanvasClickToRoot(s) ==
  IF s.zoomProgress > 0
  THEN [s EXCEPT !.zoomProgress = 0, !.zoomingNode = NoNode, !.currentLayerIndex = 0]
  ELSE s

handleCanvasClick(s) ==
  IF s.zoomProgress > 0
  THEN [s EXCEPT !.zoomProgress = 0, !.zoomingNode = NoNode]
  ELSE s

\* handleHome returning early only while a transition runs
handleHomeNoRootGuard(s, c) ==
  IF c.isZooming THEN s
  ELSE [s EXCEPT !.isZooming = TRUE,
                 !.backgroundColor = canvasBackgroundColor,
                 !.timers50 = Append(@, [kind |-> "homeSwap", layerIndex |-> 0, index |-> 0]),
                 !.unlocks = @ + 1]

handleHome(s, c) ==
  IF c.currentLayerIndex = 0 \/ c.isZooming THEN s
  ELSE [s EXCEPT !.isZooming = TRUE,
                 !.backgroundColor = canvasBackgroundColor,
                 !.timers50 = Append(@, [kind |-> "homeSwap", layerIndex |-> 0, index |-> 0]),
                 !.unlocks = @ + 1]

\* index is the 0-based history index of the bubble
handleNavigate(s, c, index) ==
  IF index = Len(c.history) - 1 \/ c.isZooming THEN s
  ELSE LET target == c.history[index + 1]
       IN [s EXCEPT !.isZooming = TRUE,
                    !.backgroundColor = target.color,
                    !.timers50 = Append(@, [kind |-> "navSwap",
                                            layerIndex |-> target.layerIndex,
                                            index |-> index]),
                    !.unlocks = @ + 1]

\* reverseSwap without its setHistory(prev => prev.slice(0, -1))
reverseSwapKeepsHistory(s, t) ==
  [s EXCEPT !.currentLayerIndex = t.layerIndex]

\* reverseSwap landing one layer below the previous history entry
reverseSwapBelowTarget(s, t) ==
  [s EXCEPT !.currentLayerIndex = t.layerIndex - 1, !.history = DropLast(@)]

\* the callbacks passed to setTimeout(..., 50)
reverseSwap(s, t) ==
  [s EXCEPT !.currentLayerIndex = t.layerIndex, !.history = DropLast(@)]

homeSwap(s) ==
  [clearClickZoomInterval(s) EXCEPT !.currentLayerIndex = 0,
                                    !.zoomProgress = 0,
                                    !.zoomingNode = NoNode,
                                    !.history = << rootEntry >>]

\* navSwap cutting history with prev.slice(0, index)
navSwapOffByOne(s, t) ==
  LET s1 == IF t.layerIndex = 0
            THEN [clearClickZoomInterval(s) EXCEPT !.zoomProgress = 0, !.zoomingNode = NoNode]
            ELSE s
  IN [s1 EXCEPT !.currentLayerIndex = t.layerIndex, !.history = Slice(@, t.index)]

navSwap(s, t) ==
  LET s1 == IF t.layerIndex = 0
            THEN [clearClickZoomInterval(s) EXCEPT !.zoomProgress = 0, !.zoomingNode = NoNode]
            ELSE s
  IN [s1 EXCEPT !.currentLayerIndex = t.layerIndex, !.history = Slice(@, t.index + 1)]

runTimer50(s, t) ==
  CASE t.kind = "reverseSwap" -> reverseSwap(s, t)
    [] t.kind = "homeSwap" -> homeSwap(s)
    [] t.kind = "navSwap" -> navSwap(s, t)

\* one requestAnimationFrame callback
runRaf(s, r) ==
  IF r.kind = "silent" THEN handleSilentLayerTransition(s, r.closure, r.node)
  ELSE handleReverseLayerTransition(s, r.closure)

RECURSIVE runFrame(_, _)
\* the callbacks of one frame run in the order they were requested
runFrame(s, queue) ==
  IF queue = << >> THEN s ELSE runFrame(runRaf(s, Head(queue)), Tail(queue))

\* zoomProgress prop of a Node: zoomingNode?.id === node.id ? zoomProgress : 0
nodeZoomProgress(s, node) == IF s.zoomingNode = node THEN s.zoomProgress ELSE 0

handleNodeWheel(s, c, node, deltaY) ==
  IF c.isZooming THEN s
  ELSE IF deltaY > 0 /\ childrenOf(node) # NoLayer THEN handleZoomProgress(s, c, node, deltaY)
  ELSE IF deltaY < 0 /\ c.currentLayerIndex # 0 THEN handleZoomProgress(s, c, node, deltaY)
  ELSE s

handleWheel(s, c, deltaY) ==
  IF deltaY < 0 /\ c.currentLayerIndex > 0 /\ ~c.isZooming
  THEN IF c.zoomProgress > 0
       THEN handleZoomProgress(s, c, s.zoomingNode, deltaY)
       ELSE handleReverseLayerTransition(s, c)
  ELSE s

\* the window listener of 'triggerReverseTransition'; lc is the closure of the
\* render that registered it
handleReverseTransition(s, lc) ==
  IF ~lc.isZooming /\ lc.currentLayerIndex > 0
  THEN handleReverseLayerTransition(s, lc)
  ELSE s

RightClickStep == 5

handleNodeRightClick(s, c, lc, node) ==
  IF c.isZooming THEN s
  ELSE IF c.currentLayerIndex = 0 THEN s
  ELSE IF nodeZoomProgress(s, node) > 0 THEN handleZoomProgress(s, c, node, -RightClickStep)
  ELSE handleReverseTransition(s, lc)

\* the handle setInterval returns: the smallest id no live interval has
freshIntervalId(live) == CHOOSE i \in 1..(Cardinality(live) + 1) :
  /\ \A l \in live : l.id # i
  /\ \A j \in 1..(i - 1) : \E l \in live : l.id = j

ClickStep == 5

\* what a tick (deltaY = 5 > 0) reads of the closure of the render that started
\* the interval: isZooming, whether zoomProgress === 0, currentLayerIndex (and
\* currentLayer) and viewport; it never reads history
tickClosure(c) ==
  [ isZooming |-> c.isZooming, zoomProgress |-> IF c.zoomProgress = 0 THEN 0 ELSE 1,
    currentLayerIndex |-> c.currentLayerIndex, viewport |-> c.viewport,
    history |-> << >> ]

\* onClick without its clearInterval(clickZoomIntervalRef.current)
nodeOnClickNoClear(s, c, node) ==
  IF childrenOf(node) # NoLayer /\ ~c.isZooming /\ nodeZoomProgress(s, node) = 0
  THEN LET zoomInterval == freshIntervalId(s.intervals)
       IN [s EXCEPT !.intervals = @ \cup { [id |-> zoomInterval, node |-> node,
                                            closure |-> tickClosure(c)] },
                    !.clickZoomIntervalRef = zoomInterval]
  ELSE s

\* onClick of a Node (and the short tap of handleTouchEnd): starts the interval
nodeOnClick(s, c, node) ==
  IF childrenOf(node) # NoLayer /\ ~c.isZooming /\ nodeZoomProgress(s, node) = 0
  THEN LET s1 == IF s.clickZoomIntervalRef # 0
                 THEN [s EXCEPT !.intervals = { i \in @ : i.id # s.clickZoomIntervalRef }]
                 ELSE s
           zoomInterval == freshIntervalId(s1.intervals)
       IN [s1 EXCEPT !.intervals = @ \cup { [id |-> zoomInterval, node |-> node,
                                             closure |-> tickClosure(c)] },
                     !.clickZoomIntervalRef = zoomInterval]
  ELSE s

\* one tick of the interval: onZoomProgress(node, 5) of the render that started it
intervalTick(s, i) == handleZoomProgress(s, i.closure, i.node, ClickStep)

\* the setTimeout(duration) that ends the simulated zoom
intervalTimeout(s, id) ==
  [s EXCEPT !.intervals = { i \in @ : i.id # id },
            !.clickZoomIntervalRef = IF @ = id THEN 0 ELSE @]

(***************************************************************************)
(* Actions: one task of the event loop each, followed by React's render    *)
(***************************************************************************)
\* deltaY of the wheel events on a layer: the notch that leaves zoomProgress one
\* step of 5 short of the layer's threshold (555 * 0.15 = 83.25 at the root,
\* 595 * 0.15 = 89.25 deeper), in and out
WheelNotch(layerIndex) ==
  (transitionThreshold(layerIndex) - ClickStep * zoomSensitivity100) \div zoomSensitivity100

WheelDeltas == { -WheelNotch(currentLayerIndex), WheelNotch(currentLayerIndex) }

\* the nodes the pointer events land on (one of the four terminal nodes)
InputNodes == { "node-1", "node-2-1", "node-3-1" }

\* an input is taken only while the callbacks it schedules fit the bounds
Bounded(s) ==
  /\ Len(s.rafQueue) <= MaxRaf
  /\ s.unlocks + Len(s.rafQueue) <= MaxTransitions

\* the callbacks of the event loop; every other operation is a user input
Callbacks ==
  { "AnimationFrame", "IntervalTick", "IntervalTimeout", "reverseSwap", "homeSwap",
    "navSwap", "unlock" }

\* no transition is requested, scheduled or running
NothingInFlight ==
  ~isZooming /\ rafQueue = << >> /\ timers50 = << >> /\ unlocks = 0

\* homeRun is "invoked" from a home accepted with nothing in flight until its
\* 50 ms callback has run, and "done" from then until the next user input that
\* is not dropped
homeRunAfter(s, op) ==
  IF s = St THEN homeRun
  ELSE IF op = "Home" THEN (IF NothingInFlight THEN "invoked" ELSE "idle")
  ELSE IF op = "homeSwap" THEN (IF homeRun = "invoked" THEN "done" ELSE "idle")
  ELSE IF op \in Callbacks \/ homeRun = "invoked" THEN homeRun
  ELSE "idle"

\* the effect with dependencies [isZooming, currentLayerIndex] re-registers the
\* listener, which then closes over the history of that render
Commit(s, op) ==
  /\ currentLayerIndex' = s.currentLayerIndex
  /\ zoomProgress' = s.zoomProgress
  /\ zoomingNode' = s.zoomingNode
  /\ history' = s.history
  /\ backgroundColor' = s.backgroundColor
  /\ isZooming' = s.isZooming
  /\ clickZoomIntervalRef' = s.clickZoomIntervalRef
  /\ intervals' = s.intervals
  /\ rafQueue' = s.rafQueue
  /\ timers50' = s.timers50
  /\ unlocks' = s.unlocks
  /\ listenerHistory' = IF s.isZooming # isZooming \/ s.currentLayerIndex # currentLayerIndex
                        THEN s.history ELSE listenerHistory
  /\ lastOp' = IF s = St /\ op \notin { "zoomInTerminal", "homeAtRoot" } THEN lastOp ELSE op
  /\ homeRun' = homeRunAfter(s, op)
  /\ UNCHANGED << scaleArgs, responsiveScale >>

CurrentNodeIds == { n.id : n \in NodesOf(currentLayerIndex) } \cap InputNodes

\* every node of the layer shown: the right click (and the long press) lands on
\* the zoomed node or on one beside it
LayerNodeIds == { n.id : n \in NodesOf(currentLayerIndex) }

\* a step of 5 changed zoomProgress
FineStep(s) ==
  /\ fineSteps < MaxFineSteps
  /\ fineSteps' = IF s.zoomProgress # zoomProgress THEN fineSteps + 1 ELSE fineSteps

ListenerClosure == [Closure EXCEPT !.history = listenerHistory]

NodeWheel(node, deltaY) ==
  LET s == handleNodeWheel(St, Closure, node, deltaY)
  IN /\ Bounded(s)
     /\ Commit(s, IF deltaY > 0 /\ childrenOf(node) = NoLayer
                  THEN "zoomInTerminal" ELSE "NodeWheel")
     /\ UNCHANGED << viewport, fineSteps >>

CanvasWheel(deltaY) ==
  LET s == handleWheel(St, Closure, deltaY)
  IN /\ Bounded(s)
     /\ Commit(s, "CanvasWheel")
     /\ UNCHANGED << viewport, fineSteps >>

CanvasClick ==
  /\ Commit(handleCanvasClick(St), "CanvasClick")
  /\ UNCHANGED << viewport, fineSteps >>

NodeClick(node) ==
  /\ Commit(nodeOnClick(St, Closure, node), "NodeClick")
  /\ UNCHANGED << viewport, fineSteps >>

NodeRightClick(node) ==
  LET s == handleNodeRightClick(St, Closure, ListenerClosure, node)
  IN /\ Bounded(s)
     /\ FineStep(s)
     /\ Commit(s, "NodeRightClick")
     /\ UNCHANGED viewport

\* the button is disabled at the root and while a transition runs, which is the
\* condition of the handler's early return; a call at the root is recorded as
\* "homeAtRoot"
Home ==
  LET s == handleHome(St, Closure)
  IN /\ Bounded(s)
     /\ Commit(s, IF currentLayerIndex = 0 THEN "homeAtRoot" ELSE "Home")
     /\ UNCHANGED << viewport, fineSteps >>

\* NavigationBubbles renders one button per history entry but the first
Navigate(index) ==
  LET s == handleNavigate(St, Closure, index)
  IN /\ Bounded(s)
     /\ Commit(s, "Navigate")
     /\ UNCHANGED << viewport, fineSteps >>

IntervalTick(i) ==
  LET s == intervalTick(St, i)
  IN /\ Bounded(s)
     /\ FineStep(s)
     /\ Commit(s, "IntervalTick")
     /\ UNCHANGED viewport

IntervalTimeout(i) ==
  /\ Commit(intervalTimeout(St, i.id), "IntervalTimeout")
  /\ UNCHANGED << viewport, fineSteps >>

AnimationFrame ==
  /\ rafQueue # << >>
  /\ Commit(runFrame([St EXCEPT !.rafQueue = << >>], rafQueue), "AnimationFrame")
  /\ UNCHANGED << viewport, fineSteps >>

Timer50 ==
  /\ timers50 # << >>
  /\ Commit(runTimer50([St EXCEPT !.timers50 = Tail(@)], Head(timers50)),
            Head(timers50).kind)
  /\ UNCHANGED << viewport, fineSteps >>

\* setTimeout(() => setIsZooming(false), 750): after the 50 ms timer set with it
Timer750 ==
  /\ unlocks > Len(timers50)
  /\ Commit([St EXCEPT !.isZooming = FALSE, !.unlocks = @ - 1], "unlock")
  /\ UNCHANGED << viewport, fineSteps >>

\* setViewport({ width: window.innerWidth, height: window.innerHeight })
handleResize(v) ==
  /\ viewport = InitialViewport
  /\ v # viewport
  /\ viewport' = v
  /\ UNCHANGED << currentLayerIndex, zoomProgress, zoomingNode, history, backgroundColor,
                  isZooming, clickZoomIntervalRef, intervals, rafQueue, timers50,
                  unlocks, listenerHistory, fineSteps, lastOp, homeRun,
                  scaleArgs, responsiveScale >>

Next ==
  \/ \E node \in CurrentNodeIds, deltaY \in WheelDeltas : NodeWheel(node, deltaY)
  \/ \E deltaY \in WheelDeltas : CanvasWheel(deltaY)
  \/ CanvasClick
  \/ \E node \in CurrentNodeIds : NodeClick(node)
  \/ \E node \in LayerNodeIds : NodeRightClick(node)
  \/ Home
  \/ \E index \in 1..(Len(history) - 1) : Navigate(index)
  \/ \E i \in intervals : IntervalTick(i)
  \/ \E i \in intervals : IntervalTimeout(i)
  \/ AnimationFrame
  \/ Timer50
  \/ Timer750

Spec == Init /\ [][Next]_vars

NextResize == Next \/ \E v \in Viewports : handleResize(v)

SpecResize == Init /\ [][NextResize]_vars

(***************************************************************************)
(* The component with DanglingNode shown on every layer beside the         *)
(* configured nodes: the wheel reaches every node and the canvas, the      *)
(* click and the right click land on DanglingNode                          *)
(***************************************************************************)
NextDangling ==
  \/ \E node \in CurrentNodeIds \cup { DanglingNode.id }, deltaY \in WheelDeltas :
       NodeWheel(node, deltaY)
  \/ \E deltaY \in WheelDeltas : CanvasWheel(deltaY)
  \/ CanvasClick
  \/ NodeClick(DanglingNode.id)
  \/ NodeRightClick(DanglingNode.id)
  \/ \E i \in intervals : IntervalTick(i)
  \/ \E i \in intervals : IntervalTimeout(i)
  \/ AnimationFrame
  \/ Timer50
  \/ Timer750

SpecDangling == Init /\ [][NextDangling]_vars

(***************************************************************************)
(* calculateResponsiveScale on its own: the arguments are drawn from       *)
(* ScaleViewports and ScaleNodeLists (or are missing), and the one action  *)
(* calls the function                                                      *)
(***************************************************************************)
ScaleWidths == { 320, 1920 }
ScaleHeights == { 400, 528, 600, 1320 }
ScaleViewports == { [width |-> w, height |-> h] : w \in ScaleWidths, h \in ScaleHeights }

\* a node of a list under test, at (x, y) percent
NodeAt(x, y) == [id |-> "node", x |-> x, y |-> y, children |-> NoLayer]

\* the three configured layers, no node, one node, a vertical pair near the
\* left edge, two nodes at one place, a close pair away from the edges
ScaleNodeLists ==
  { LayerAt(i).nodes : i \in 0..(NumLayers - 1) } \cup
  { << >>,
    << NodeAt(50, 50) >>,
    << NodeAt(2, 40), NodeAt(2, 60) >>,
    << NodeAt(50, 50), NodeAt(50, 50) >>,
    << NodeAt(48, 50), NodeAt(52, 50) >> }

ScaleArgs ==
  { [viewport |-> v, allNodes |-> ns] :
      v \in { Null } \cup { Some(w) : w \in ScaleViewports },
      ns \in { Null } \cup { Some(l) : l \in ScaleNodeLists } }

InitScale ==
  /\ Mounted
  /\ scaleArgs \in ScaleArgs
  /\ responsiveScale = NotCalled

CallScale ==
  /\ responsiveScale = NotCalled
  /\ responsiveScale' = calculateResponsiveScaleOf(scaleArgs)
  /\ UNCHANGED << currentLayerIndex, zoomProgress, zoomingNode, history, backgroundColor,
                  isZooming, viewport, clickZoomIntervalRef, intervals, rafQueue,
                  timers50, unlocks, listenerHistory, fineSteps, lastOp, homeRun,
                  scaleArgs >>

NextScale == CallScale

SpecScale == InitScale /\ [][NextScale]_vars

(***************************************************************************)
(* C1: history invariant.  In every reachable state history has at least   *)
(* one entry and its first entry is the root layer (layerIndex 0).         *)
(***************************************************************************)
C1_HistoryInvariant ==
  /\ Len(history) >= 1
  /\ history[1].layerIndex = 0

(***************************************************************************)
(* C2: zoom bound invariant.  In every reachable state zoomProgress is     *)
(* between 0 and 200 at the root, and between 0 and maxProgress of the     *)
(* current viewport on a deeper layer.                                     *)
(***************************************************************************)
C2_ZoomBound ==
  /\ 0 <= zoomProgress
  /\ zoomProgress <= IF currentLayerIndex = 0 THEN RootMaxProgress
                     ELSE maxProgress(viewport, currentLayerIndex)

(***************************************************************************)
(* C3: threshold idempotence.  A step of handleZoomProgress triggers one   *)
(* forward transition when it raises zoomProgress from below the threshold *)
(* of the current layer (84 at the root, 90 deeper) to the threshold or    *)
(* above, and triggers none otherwise.                                     *)
(***************************************************************************)
ZoomOps == { "NodeWheel", "CanvasWheel", "NodeRightClick", "IntervalTick" }

\* number of forward transitions the pending animation frames will run
SilentCount(queue) == Cardinality({ k \in 1..Len(queue) : queue[k].kind = "silent" })

C3_CrossedFromBelow ==
  /\ zoomProgress < transitionThreshold(currentLayerIndex)
  /\ transitionThreshold(currentLayerIndex) <= zoomProgress'

C3_ThresholdIdempotence ==
  [][lastOp' \in ZoomOps =>
       SilentCount(rafQueue') - SilentCount(rafQueue) = IF C3_CrossedFromBelow THEN 1 ELSE 0]_vars

(***************************************************************************)
(* C4: the transition lock.  While isZooming is true, a wheel zoom, a tick *)
(* of the simulated zoom, a node click, home, a breadcrumb jump or a       *)
(* reverse request is dropped: it changes none of zoomProgress,            *)
(* zoomingNode, currentLayerIndex and history.                             *)
(***************************************************************************)
LockedInputs ==
  { "NodeWheel", "CanvasWheel", "NodeRightClick", "IntervalTick", "NodeClick",
    "Home", "Navigate" }

C4_LockDropsInputs ==
  [][isZooming /\ lastOp' \in LockedInputs =>
       UNCHANGED << zoomProgress, zoomingNode, currentLayerIndex, history >>]_vars

(***************************************************************************)
(* C5: forward transition out of the root.  Starting at the root, history  *)
(* holding the root entry alone: a wheel zoom-in on an expandable node of  *)
(* the root layer that raises zoomProgress from below 84 to 84 or more     *)
(* requests the transition, and when the animation frame runs it,          *)
(* currentLayerIndex becomes the index of the layer the node's children    *)
(* name (here 1) and history grows by exactly one entry, for that layer    *)
(* (here to length 2).                                                     *)
(***************************************************************************)
\* the frame about to run holds forward transitions requested at the root, on
\* nodes of the root layer, and nothing else
RootTransitionPending ==
  /\ currentLayerIndex = 0
  /\ rafQueue # << >>
  /\ \A k \in 1..Len(rafQueue) :
       /\ rafQueue[k].kind = "silent"
       /\ rafQueue[k].closure.currentLayerIndex = 0
       /\ NodeById(rafQueue[k].node) \in NodesOf(0)

C5_ForwardFromRoot ==
  [][/\ (/\ currentLayerIndex = 0
         /\ lastOp' = "NodeWheel"
         /\ zoomProgress < RootThreshold
         /\ zoomProgress' >= RootThreshold)
        => /\ Len(rafQueue') = Len(rafQueue) + 1
           /\ rafQueue'[Len(rafQueue')].kind = "silent"
           /\ NodeById(rafQueue'[Len(rafQueue')].node) \in NodesOf(0)
           /\ rafQueue'[Len(rafQueue')].closure.currentLayerIndex = 0
     /\ (/\ RootTransitionPending
         /\ history = << rootEntry >>
         /\ lastOp' = "AnimationFrame")
        => /\ currentLayerIndex' = findIndex(childrenOf(rafQueue[1].node))
           /\ currentLayerIndex' = 1
           /\ Len(history') = 2
           /\ history' = Append(history, history'[2])
           /\ history'[2].layerIndex = currentLayerIndex'
           /\ history'[2].clickedNode = rafQueue[1].node]_vars

C5_Witness ==
  /\ lastOp = "AnimationFrame"
  /\ currentLayerIndex = 1
  /\ Len(history) = 2
  /\ history[1] = rootEntry
  /\ history[2].layerIndex = 1
  /\ history[2].clickedNode = "node-1"

(***************************************************************************)
(* C6: background after the forward transition out of the root.  As        *)
(* claimed: after the forward transition via the node "water cycle"        *)
(* (node-1), backgroundColor is #7c3aed.                                   *)
(***************************************************************************)
C6_BackgroundIsTargetLayerColor ==
  [][RootTransitionPending /\ lastOp' = "AnimationFrame" =>
       backgroundColor' = "#7c3aed"]_vars

(***************************************************************************)
(* C6, amended: node-1 carries no color of its own, so after the forward   *)
(* transition via node-1 backgroundColor is the color of the layer the     *)
(* zoom started on, the root layer: #2563eb.                               *)
(***************************************************************************)
C6_BackgroundIsRootLayerColor ==
  [][RootTransitionPending /\ lastOp' = "AnimationFrame" =>
       /\ backgroundColor' = LayerAt(0).color
       /\ backgroundColor' = "#2563eb"]_vars

C6_Witness ==
  /\ lastOp = "AnimationFrame"
  /\ currentLayerIndex = 1
  /\ backgroundColor = "#2563eb"
  /\ zoomProgress = 0
  /\ history[Len(history)].clickedNode = "node-1"

(***************************************************************************)
(* C7: home.  From a non-root layer with nothing in flight, once the 50 ms *)
(* callback of home has run, currentLayerIndex is 0, history holds the     *)
(* root entry alone, zoomProgress is 0 and zoomingNode is null, and the    *)
(* state stays so until the next user input.                               *)
(***************************************************************************)
HomeReset ==
  /\ currentLayerIndex = 0
  /\ history = << rootEntry >>
  /\ zoomProgress = 0
  /\ zoomingNode = NoNode

C7_HomeResetStays == homeRun = "done" => HomeReset

(***************************************************************************)
(* Scenarios: handlers and callbacks run one after the other, each on the  *)
(* render of the state the one before left                                 *)
(***************************************************************************)
\* the closure of the render of s
ClosureOf(s) ==
  [ isZooming |-> s.isZooming, zoomProgress |-> s.zoomProgress,
    currentLayerIndex |-> s.currentLayerIndex, viewport |-> viewport,
    history |-> s.history ]

\* the animation frame
afterFrame(s) == runFrame([s EXCEPT !.rafQueue = << >>], s.rafQueue)

\* the 50 ms callback scheduled last
afterDelay(s) ==
  IF s.timers50 = << >> THEN s
  ELSE runTimer50([s EXCEPT !.timers50 = DropLast(@)], s.timers50[Len(s.timers50)])

\* the 750 ms callback
afterUnlock(s) ==
  IF s.unlocks = 0 THEN s ELSE [s EXCEPT !.isZooming = FALSE, !.unlocks = @ - 1]

RECURSIVE zoomInUntilFrame(_, _, _)
\* wheel notches on the node until an animation frame is requested (n at most)
zoomInUntilFrame(s, node, n) ==
  IF n = 0 \/ s.rafQueue # << >> THEN s
  ELSE zoomInUntilFrame(handleNodeWheel(s, ClosureOf(s), node, WheelNotch(s.currentLayerIndex)),
                        node, n - 1)

\* wheel zoom-in on the node across the threshold, then the frame
forwardTransition(s, node) == afterFrame(zoomInUntilFrame(s, node, 3))

\* canvas wheel zoom-out, then the frame, the 50 ms and the 750 ms callbacks
zoomOutTransition(s) ==
  LET s1 == handleWheel(s, ClosureOf(s), -WheelNotch(s.currentLayerIndex))
  IN afterUnlock(afterDelay(afterFrame(s1)))

(***************************************************************************)
(* C8: round trip.  From layer index 1 with history of length 2 and        *)
(* nothing in flight, a forward threshold transition into layer index 2    *)
(* followed by a zoom-out there (zoomProgress is 0) returns to             *)
(* currentLayerIndex 1 with history of length 2 and                        *)
(* history[1].layerIndex = 1: the history before the forward transition.   *)
(***************************************************************************)
C8_AtLayer2 ==
  /\ currentLayerIndex = 1
  /\ Len(history) = 2
  /\ history[2].layerIndex = 1
  /\ zoomProgress < DeepThreshold
  /\ NothingInFlight

C8_RoundTrip ==
  C8_AtLayer2 =>
    \A n \in NodesOf(1) :
      LET forward == forwardTransition(St, n.id)
          back == zoomOutTransition(forward)
      IN /\ forward.currentLayerIndex = 2
         /\ Len(forward.history) = 3
         /\ forward.zoomProgress = 0
         /\ back.currentLayerIndex = 1
         /\ Len(back.history) = 2
         /\ back.history[2].layerIndex = 1
         /\ back.history = history
         /\ back.zoomProgress = 0
         /\ ~back.isZooming

C8_Witness ==
  /\ lastOp = "reverseSwap"
  /\ currentLayerIndex = 1
  /\ Len(history) = 2
  /\ history[2].layerIndex = 1
  /\ zoomProgress = 0
  /\ timers50 = << >>
  /\ unlocks = 1

(***************************************************************************)
(* C9: breadcrumb jump.  With nothing in flight, navigate(i) for           *)
(* i < history.length - 1 gives, after its 50 ms callback,                 *)
(* currentLayerIndex = history[i].layerIndex and history cut to its first  *)
(* i + 1 entries; navigate(history.length - 1) changes nothing.            *)
(***************************************************************************)
C9_Navigate ==
  NothingInFlight =>
    \A i \in 0..(Len(history) - 1) :
      LET clicked == handleNavigate(St, Closure, i)
          after == afterUnlock(afterDelay(clicked))
      IN IF i < Len(history) - 1
         THEN /\ clicked.isZooming
              /\ after.currentLayerIndex = history[i + 1].layerIndex
              /\ after.history = SubSeq(history, 1, i + 1)
              /\ Len(after.history) = i + 1
              /\ ~after.isZooming
         ELSE clicked = St

\* navigate(1) from the third layer has run: the second layer, history of length 2
C9_Witness ==
  /\ lastOp = "navSwap"
  /\ currentLayerIndex = 1
  /\ Len(history) = 2
  /\ history[2].layerIndex = 1
  /\ unlocks = 1
  /\ timers50 = << >>
  /\ rafQueue = << >>

(***************************************************************************)
(* C10: zoom-in on a terminal node.  In every state, a wheel zoom-in       *)
(* (positive deltaY) on a node without children changes none of            *)
(* currentLayerIndex, zoomProgress, zoomingNode, history, backgroundColor  *)
(* and isZooming, and schedules nothing.                                   *)
(***************************************************************************)
TerminalNodes == { n.id : n \in { m \in AllNodes : ~hasChildren(m) } }

PositiveDeltas == { 1, 100, WheelNotch(0), WheelNotch(1) }

C10_TerminalZoomInNoOp ==
  \A node \in TerminalNodes, deltaY \in PositiveDeltas :
    /\ handleNodeWheel(St, Closure, node, deltaY) = St
    /\ handleZoomProgress(St, Closure, node, deltaY) = St

\* a wheel zoom-in has landed on a terminal node of the third layer
C10_Witness ==
  /\ lastOp = "zoomInTerminal"
  /\ currentLayerIndex = 2
  /\ ~isZooming

(***************************************************************************)
(* C11: scale bounds.  For every viewport and node list,                   *)
(* calculateResponsiveScale returns a value in [0.3, 1.0]; it returns      *)
(* exactly 1 when the list has at most one node or when the viewport or    *)
(* the node list is missing.                                               *)
(***************************************************************************)
C11_InsufficientData ==
  \/ scaleArgs.viewport = Null
  \/ scaleArgs.allNodes = Null
  \/ Len(scaleArgs.allNodes[1]) <= 1

C11_ScaleBounds ==
  responsiveScale # NotCalled =>
    /\ ScaleMin <= responsiveScale /\ responsiveScale <= ScaleOne
    /\ C11_InsufficientData => responsiveScale = ScaleOne

\* the function was called without a viewport on a list of several nodes
C11_Witness ==
  /\ responsiveScale = ScaleOne
  /\ scaleArgs.viewport = Null
  /\ scaleArgs.allNodes # Null
  /\ Len(scaleArgs.allNodes[1]) > 1

(***************************************************************************)
(* C12: no overlap.  After the returned scale is applied, every pair of    *)
(* nodes whose centres are not at the same place has a centre distance of  *)
(* at least baseSize * scale * 1.2 pixels.                                 *)
(***************************************************************************)
\* the centre distance of nodes i and j of the list, in 1/10 px
C12_Distance(i, j) ==
  LET v == scaleArgs.viewport[1]
      n1 == scaleArgs.allNodes[1][i]
      n2 == scaleArgs.allNodes[1][j]
      dx == PxX(n2, v) - PxX(n1, v)
      dy == PxY(n2, v) - PxY(n1, v)
  IN Sqrt(dx * dx + dy * dy)

C12_Called ==
  responsiveScale # NotCalled /\ scaleArgs.viewport # Null /\ scaleArgs.allNodes # Null

\* distance >= minDistance * scale, for every pair with a distance
C12_Separated ==
  \A i, j \in 1..Len(scaleArgs.allNodes[1]) :
    i < j /\ C12_Distance(i, j) > 0 =>
      C12_Distance(i, j) * ScaleOne >= minDistance * responsiveScale

C13_Monotone ==
  C12_Called =>
    \A v2 \in ScaleViewports :
      v2.width >= scaleArgs.viewport[1].width /\ v2.height >= scaleArgs.viewport[1].height =>
        calculateResponsiveScale(v2, scaleArgs.allNodes[1]) >= responsiveScale

(***************************************************************************)
(* C14: home at the root.  While currentLayerIndex is 0, invoking home     *)
(* changes nothing: the lock is not engaged, no timer is scheduled, and    *)
(* history and backgroundColor are unchanged.                              *)
(***************************************************************************)
C14_HomeAtRootNoOp ==
  currentLayerIndex = 0 => handleHome(St, Closure) = St

\* home was invoked at the root with no transition running
C14_Witness ==
  lastOp = "homeAtRoot" /\ currentLayerIndex = 0 /\ ~isZooming /\ timers50 = << >>

(***************************************************************************)
(* C15: canvas click.  With zoomProgress > 0 a click on the canvas sets    *)
(* zoomProgress to 0 and zoomingNode to null; with zoomProgress = 0 it     *)
(* changes nothing.  It never changes currentLayerIndex, history,          *)
(* backgroundColor or the transition lock.                                 *)
(***************************************************************************)
C15_CanvasClick ==
  /\ [](zoomProgress = 0 => handleCanvasClick(St) = St)
  /\ [][lastOp' = "CanvasClick" =>
          /\ zoomProgress > 0
          /\ zoomProgress' = 0
          /\ zoomingNode' = NoNode
          /\ UNCHANGED << currentLayerIndex, history, backgroundColor, isZooming >>]_vars

\* a click on the canvas has reset the zoom on layer 2
C15_Witness ==
  /\ lastOp = "CanvasClick"
  /\ zoomProgress = 0 /\ zoomingNode = NoNode
  /\ currentLayerIndex = 1 /\ Len(history) = 2

(***************************************************************************)
(* C16: initial state.  At mount currentLayerIndex is 0 (the layer named   *)
(* "Root", the first of 3), zoomProgress is 0, zoomingNode is null, no     *)
(* transition runs, history holds the single root entry, and               *)
(* backgroundColor is the canvas default.                                  *)
(***************************************************************************)
C16_InitialState ==
  lastOp = "mount" =>
    /\ currentLayerIndex = 0
    /\ LayerAt(currentLayerIndex).name = "Root"
    /\ NumLayers = 3
    /\ zoomProgress = 0
    /\ zoomingNode = NoNode
    /\ ~isZooming
    /\ Len(history) = 1
    /\ history[1].layerIndex = 0
    /\ history[1].name = "Root"
    /\ history[1].color = canvasBackgroundColor
    /\ history[1].nodeColor = canvasBackgroundColor
    /\ backgroundColor = canvasBackgroundColor

\* the component has been mounted and nothing has acted on it
C16_Witness ==
  lastOp = "mount" /\ history = << rootEntry >> /\ NothingInFlight /\ intervals = {}

(***************************************************************************)
(* C17: index range.  In every reachable state                             *)
(* 0 <= currentLayerIndex < number of layers, and the layerIndex of every  *)
(* history entry is in the same range.                                     *)
(***************************************************************************)
C17_IndexRange ==
  /\ 0 <= currentLayerIndex /\ currentLayerIndex < NumLayers
  /\ \A k \in 1..Len(history) :
       0 <= history[k].layerIndex /\ history[k].layerIndex < NumLayers

\* the deepest layer has been reached and then left again by a reverse transition
C17_Witness ==
  /\ lastOp = "reverseSwap"
  /\ currentLayerIndex = NumLayers - 2
  /\ Len(history) = NumLayers - 1
  /\ history[Len(history)].layerIndex = currentLayerIndex

(***************************************************************************)
(* C18: dangling children reference.  When the children of a node name no  *)
(* layer, a forward transition on the node (zoomProgress crossing the      *)
(* threshold by wheel or by click) navigates nowhere: currentLayerIndex,   *)
(* history and backgroundColor are unchanged, and no transition starts.    *)
(***************************************************************************)
\* the frame holds only transitions requested for DanglingNode
C18_DanglingFrame ==
  /\ rafQueue # << >>
  /\ \A k \in 1..Len(rafQueue) :
       rafQueue[k].kind = "silent" /\ rafQueue[k].node = DanglingNode.id

C18_DanglingNoNavigation ==
  /\ [](findIndex(DanglingNode.children) = -1)
  /\ [](handleSilentLayerTransition(St, Closure, DanglingNode.id) = St)
  /\ [][C18_DanglingFrame /\ lastOp' = "AnimationFrame" =>
          UNCHANGED << currentLayerIndex, history, backgroundColor, isZooming,
                       timers50, unlocks >>]_vars

\* DanglingNode was zoomed across the threshold and the frame of its transition
\* has run
C18_Witness ==
  /\ lastOp = "AnimationFrame"
  /\ zoomingNode = DanglingNode.id
  /\ zoomProgress >= transitionThreshold(currentLayerIndex)
  /\ rafQueue = << >>

(***************************************************************************)
(* C19: one transition in flight.  While the delayed layer-swap callback   *)
(* of one transition (reverse, home or breadcrumb) is pending, no second   *)
(* transition is started: at most one such callback is pending at a time.  *)
(***************************************************************************)
C19_OneTransitionInFlight == Len(timers50) <= 1

(***************************************************************************)
(* C20: interval cancelled by a transition.  Once a layer transition has   *)
(* begun, no tick of a simulated click zoom started before it changes      *)
(* zoomProgress, zoomingNode, currentLayerIndex or history: a tick that    *)
(* acts belongs to an interval started on the current layer, and no        *)
(* transition is running.                                                  *)
(***************************************************************************)
C20_TickOnItsOwnLayer ==
  [][lastOp' = "IntervalTick" =>
       /\ ~isZooming
       /\ \A i \in intervals : i.closure.currentLayerIndex = currentLayerIndex]_vars

(***************************************************************************)
(* C21: one simulated zoom.  At most one click-zoom interval is live at    *)
(* any time, and clickZoomIntervalRef is either null or the id of the      *)
(* single live interval: starting a simulated zoom first clears the        *)
(* interval the ref holds.                                                 *)
(***************************************************************************)
C21_OneInterval ==
  /\ Cardinality(intervals) <= 1
  /\ \A i \in intervals : i.id = clickZoomIntervalRef
  /\ clickZoomIntervalRef # 0 => \E i \in intervals : i.id = clickZoomIntervalRef

\* a click started a simulated zoom on the root while the ticks of the one it
\* cleared had raised zoomProgress on another node
C21_Witness ==
  /\ lastOp = "NodeClick"
  /\ Cardinality(intervals) = 1
  /\ \E i \in intervals : i.node # zoomingNode /\ zoomingNode # NoNode

(***************************************************************************)
(* C22: canvas click interrupts the simulated zoom.  After a click on the  *)
(* canvas zoomProgress stays 0 and zoomingNode stays null until the next   *)
(* user input: no tick of the interrupted interval raises zoomProgress     *)
(* again.                                                                  *)
(***************************************************************************)
C22_CanvasClickStopsTicks ==
  [][lastOp = "CanvasClick" /\ lastOp' = "IntervalTick" =>
       zoomProgress' = 0 /\ zoomingNode' = NoNode]_vars

(***************************************************************************)
(* C23: zoom state across the silent transition.  As claimed, the silent   *)
(* layer transition of a forward threshold crossing leaves zoomProgress    *)
(* and zoomingNode as they were; as the code has it, the transition sets   *)
(* zoomProgress to 0 and zoomingNode to null.                              *)
(***************************************************************************)
\* the coming frame runs a silent transition
C23_SilentPending ==
  \E k \in 1..Len(rafQueue) : rafQueue[k].kind = "silent"

C24_ReverseResetsZoom ==
  [][lastOp' = "reverseSwap" => zoomProgress' = 0 /\ zoomingNode' = NoNode]_vars

(***************************************************************************)
(* C25: top of history.  Whenever no transition is in flight (the lock is  *)
(* free and no layer swap is pending), currentLayerIndex is the layerIndex *)
(* of the last history entry.                                              *)
(***************************************************************************)
C25_TopOfHistory ==
  ~isZooming /\ timers50 = << >> =>
    Len(history) >= 1 /\ history[Len(history)].layerIndex = currentLayerIndex

(***************************************************************************)
(* C26: the simulated zoom reaches the threshold.  A click on a node that  *)
(* has children, with zoomProgress 0 and nothing else going on, leads to   *)
(* the forward transition into the node's child layer: the ticks of 5      *)
(* every 16 ms, for 2000 ms at the root and 2500 ms deeper, raise          *)
(* zoomProgress to the threshold, for every viewport.                      *)
(***************************************************************************)
ClickTickMs == 16
ClickDurationRootMs == 2000
ClickDurationDeepMs == 2500

\* the ticks an interval started on the layer gets before its timeout
TicksOfClick(layerIndex) ==
  (IF layerIndex = 0 THEN ClickDurationRootMs ELSE ClickDurationDeepMs) \div ClickTickMs

\* the ticks are evaluated in batches of this many
TickBatch == 12

RECURSIVE tickBatch(_, _)
\* n ticks of the live interval, each followed by the animation frame
tickBatch(s, n) ==
  IF n = 0 \/ s.intervals = {} THEN s
  ELSE tickBatch(afterFrame(intervalTick(s, CHOOSE i \in s.intervals : TRUE)), n - 1)

RECURSIVE afterTicks(_, _)
afterTicks(s, n) ==
  IF n = 0 \/ s.intervals = {} THEN s
  ELSE afterTicks(tickBatch(s, Min(n, TickBatch)), n - Min(n, TickBatch))

\* the click, then every tick of its interval
simulatedZoom(s, node) ==
  afterTicks(nodeOnClick(s, ClosureOf(s), node), TicksOfClick(s.currentLayerIndex))

C26_ClickReachesChildLayer ==
  NothingInFlight /\ intervals = {} /\ zoomProgress = 0 =>
    \A node \in CurrentNodeIds :
      childrenOf(node) # NoLayer =>
        simulatedZoom(St, node).currentLayerIndex = findIndex(childrenOf(node))

ZoomOutOps == { "NodeWheel", "CanvasWheel", "NodeRightClick" }

ZoomOutDeltas == { -1, -WheelNotch(currentLayerIndex) }

ReverseCount(queue) == Cardinality({ k \in 1..Len(queue) : queue[k].kind = "reverse" })

\* a zoom-out step from above 0 to 0 on a non-root layer
C28_ReachesZero ==
  /\ currentLayerIndex > 0
  /\ lastOp' \in ZoomOutOps
  /\ zoomProgress > 0 /\ zoomProgress' = 0

C29_ClampUsesCurrentViewport ==
  [][currentLayerIndex > 0 /\ lastOp' \in ZoomOps /\ zoomProgress' > zoomProgress =>
       zoomProgress' <= maxProgress(viewport, currentLayerIndex)]_vars

(***************************************************************************)
(* C30: secondary activation.  A right click (or a press held 500 ms) on   *)
(* a node of a non-root layer takes one step of 5 off zoomProgress when    *)
(* zoomProgress > 0, starting no reverse transition, and starts a reverse  *)
(* transition only when zoomProgress is 0; on the root layer it changes    *)
(* nothing.                                                                *)
(***************************************************************************)
C30_SecondaryActivation ==
  [][lastOp' = "NodeRightClick" =>
       /\ currentLayerIndex > 0
       /\ zoomProgress > 0 =>
            /\ zoomProgress' = Max(0, zoomProgress - RightClickStep * zoomSensitivity100)
            /\ UNCHANGED << timers50, unlocks, isZooming >>
       /\ zoomProgress = 0 =>
            /\ Len(timers50') = Len(timers50) + 1
            /\ isZooming'
            /\ zoomProgress' = 0]_vars

(***************************************************************************)
(* C31: target of the silent transition.  With a zoom under way on         *)
(* zoomingNode and nothing in flight, a zoom-in step on any node of the    *)
(* layer that crosses the threshold, followed by its animation frame,      *)
(* lands on the layer of zoomingNode.children and records zoomingNode as   *)
(* clickedNode of the new top history entry.                               *)
(***************************************************************************)
C31_ZoomUnderWay ==
  /\ NothingInFlight
  /\ intervals = {}
  /\ zoomingNode \in LayerNodeIds
  /\ zoomProgress > 0
  /\ zoomProgress < transitionThreshold(currentLayerIndex)

C31_SilentFollowsZoomingNode ==
  C31_ZoomUnderWay =>
    \A node \in LayerNodeIds :
      LET s1 == handleNodeWheel(St, Closure, node, WheelNotch(currentLayerIndex))
          s2 == afterFrame(s1)
      IN SilentCount(s1.rafQueue) > 0 =>
           /\ s2.currentLayerIndex = findIndex(childrenOf(zoomingNode))
           /\ s2.history[Len(s2.history)].clickedNode = zoomingNode

(***************************************************************************)
(* C32: history of the silent transition.  The animation frame of a        *)
(* forward transition leaves history alone when its top entry already has  *)
(* the target's layerIndex and appends one entry for the target layer      *)
(* otherwise; in every reachable state no two adjacent history entries     *)
(* have the same layerIndex.                                               *)
(***************************************************************************)
C32_NoAdjacentDuplicates ==
  \A k \in 1..(Len(history) - 1) : history[k].layerIndex # history[k + 1].layerIndex

C32_Target ==
  LET k == CHOOSE k \in 1..Len(rafQueue) : rafQueue[k].kind = "silent"
  IN findIndex(childrenOf(rafQueue[k].node))

C32_SilentAppendsOnce ==
  /\ []C32_NoAdjacentDuplicates
  /\ [][lastOp' = "AnimationFrame" /\ SilentCount(rafQueue) = 1 =>
          IF Len(history) > 0 /\ history[Len(history)].layerIndex = C32_Target
          THEN history' = history
          ELSE /\ Len(history') = Len(history) + 1
               /\ SubSeq(history', 1, Len(history)) = history
               /\ history'[Len(history')].layerIndex = C32_Target]_vars

\* the frame has appended the entry of layer index 2 to a history of two
C32_Witness ==
  /\ lastOp = "AnimationFrame"
  /\ rafQueue = << >>
  /\ Len(history) = 3
  /\ history[3].layerIndex = 2
  /\ history[2].layerIndex = 1
  /\ currentLayerIndex = 2

(***************************************************************************)
(* C33: backgroundColor is derived.  Whenever the root layer is shown and  *)
(* no transition is in flight, backgroundColor is the canvas default       *)
(* color, whatever operations came before and however they interleaved.    *)
(***************************************************************************)
C33_RootBackground ==
  currentLayerIndex = 0 /\ NothingInFlight => backgroundColor = canvasBackgroundColor

(***************************************************************************)
(* C34: no clipping.  After the returned scale is applied, the centre of   *)
(* every node is at least baseSize * scale / 2 pixels away from each of    *)
(* the four edges of the viewport.                                         *)
(***************************************************************************)
\* the distances of node k of the list to the four edges, in 1/10 px
C34_EdgeDistances(k) ==
  LET v == scaleArgs.viewport[1]
      node == scaleArgs.allNodes[1][k]
  IN { PxX(node, v), v.width * 10 - PxX(node, v),
       PxY(node, v), v.height * 10 - PxY(node, v) }

\* pos >= baseSize * scale / 2 for every node and edge
C34_Inside(scale) ==
  \A k \in 1..Len(scaleArgs.allNodes[1]) :
    \A pos \in C34_EdgeDistances(k) : pos * 2000 >= baseSize * scale

isRewindMode(s) ==
  /\ (IF Len(s.history) = 0 THEN NoNode ELSE s.history[Len(s.history)].clickedNode)
       = s.zoomingNode
  /\ s.zoomProgress > 0
  /\ s.currentLayerIndex > 0

\* a threshold crossing whose animation frame is due, with no transition running
C35_CrossingPending ==
  /\ Len(rafQueue) = 1
  /\ rafQueue[1].kind = "silent"
  /\ ~isZooming
  /\ timers50 = << >>
  /\ unlocks = 0

C36_ZoomingNodeOnCurrentLayer ==
  zoomingNode # NoNode => zoomingNode \in LayerNodeIds

(***************************************************************************)
(* C37: zoom state is set and cleared together.  In every reachable state  *)
(* zoomProgress > 0 if and only if zoomingNode is not null.                *)
(***************************************************************************)
C37_ZoomStateTogether ==
  zoomProgress > 0 <=> zoomingNode # NoNode

(***************************************************************************)
(* C38: backgroundColor and history agree.  Whenever no transition is in   *)
(* flight, backgroundColor is the color stored in the top history entry.   *)
(***************************************************************************)
C38_BackgroundIsTopColor ==
  NothingInFlight =>
    /\ Len(history) >= 1
    /\ backgroundColor = history[Len(history)].color

====
